---- MODULE Spec2Model ----
(***************************************************************************)
(* Discrepancy modules of torchshapelets (discrepancies.py):               *)
(*   CppDiscrepancy / L2Discrepancy and LogsignatureDiscrepancy.           *)
(*                                                                         *)
(* A tensor is a record [shape, data]: shape is the tuple of dimension     *)
(* sizes, data the entries in row-major (contiguous) order.  Every torch   *)
(* operation used by the code is an operator on such records; an operation *)
(* that can raise returns a result record [ok, err, t].                    *)
(*                                                                         *)
(* Numbers are integers.  Logsignature features are stored in units of     *)
(* 1/2 (the level-2 terms are Levy areas, half-integers on integer paths), *)
(* and a p-norm with finite p is stored as its p-th power (the sum of      *)
(* |x|^p), which determines the norm.  L2 integrals are stored in units of *)
(* 1/3.                                                                    *)
(***************************************************************************)
EXTENDS Integers, Sequences, FiniteSets, TLC

VARIABLES pc, self, times, path1, path2, out, out2, fn_arg,
          loaded, all_X, all_y, missing, dataset, driver

\* the state of a discrepancy module and of the tensors of its caller
vars_discrepancy == <<self, path1, path2, out2, fn_arg>>
\* the state of get_data (experiments/uea.py)
vars_data == <<loaded, all_X, all_y, missing>>
\* the dataset object under construction (src/models/dataset.py)
vars_dataset == <<dataset>>
\* the state of an experiment driver (experiments/uea.py)
vars_driver == <<driver>>

vars == <<pc, self, times, path1, path2, out, out2, fn_arg,
          loaded, all_X, all_y, missing, dataset, driver>>

---------------------------------------------------------------------------
(* Bounds of the explored inputs. *)

\* longest stream (number of samples per path)
MaxLen == 3
\* longest series of a dataset read by get_data
MaxSeriesLen == 5
\* most channels of a path, and largest in_channels of a module
MaxChannels == 2
\* largest size of one batch dimension
MaxDim == 2
\* most batch elements of a path (product of its batch dimensions)
MaxBatch == 4

\* numbers of batch dimensions of a path
BatchRanks == {0, 1, 2}
\* seeds of the path values of path2 (path1 uses seed 0)
Seeds == {0, 1}
\* depths given to the constructor; 0 is an invalid depth.  The model of the
\* external logsignature transform computes levels 1 and 2.
Depths == {0, 1, 2}
\* the value standing for p = infinity (p is documented as a number in [1, \infty])
Inf == 0
\* the norms explored: p = 1, p = 2 and p = infinity
Norms == {1, 2, Inf}
\* seeds of the initial (random) weights of a learnt linear map
WeightSeeds == {0, 1}
\* numbers of series (train and test together) of a dataset
SeriesCounts == {1, 2, 3}
\* numbers of channels of a dataset
ChannelCounts == {1, 2}
\* the class labels found in the dataset files
Labels == {"a", "b", "c"}
\* missing_rate in percent; 0 is no missingness
MissingRates == {0, 10, 50, 90}
\* augmentation lists given to SigletDataset; the first is the default
AugLists == {<<"addtime">>, <<>>}

---------------------------------------------------------------------------
(* Arithmetic and sequence helpers. *)

Abs(x) == IF x < 0 THEN -x ELSE x

RECURSIVE Pow(_, _)
Pow(b, e) == IF e = 0 THEN 1 ELSE b * Pow(b, e - 1)

RECURSIVE Prod(_)
Prod(s) == IF s = <<>> THEN 1 ELSE Head(s) * Prod(Tail(s))

RECURSIVE SumSeq(_)
SumSeq(s) == IF s = <<>> THEN 0 ELSE Head(s) + SumSeq(Tail(s))

RECURSIVE MaxSeq(_)
MaxSeq(s) == IF s = <<>> THEN 0
             ELSE LET m == MaxSeq(Tail(s)) IN IF Head(s) > m THEN Head(s) ELSE m

RECURSIVE Concat(_)
Concat(ss) == IF ss = <<>> THEN <<>> ELSE Head(ss) \o Concat(Tail(ss))

Prefix(s, n) == SubSeq(s, 1, n)
Ones(n) == [i \in 1..n |-> 1]

---------------------------------------------------------------------------
(* Tensors. *)

Tensor(shape, data) == [shape |-> shape, data |-> data]
Numel(t) == Prod(t.shape)
Rank(t) == Len(t.shape)
Size(t, fromEnd) == t.shape[Len(t.shape) - fromEnd + 1]

\* the errors torch and signatory raise
CatError == "RuntimeError: cat: sizes of tensors must match"
ExpandError == "RuntimeError: expand: the expanded size must match the existing size"
LinearError == "RuntimeError: linear: shapes cannot be multiplied"
SignatoryError == "signatory: invalid argument"

Ok(t) == [ok |-> TRUE, err |-> "", t |-> t]
Raise(e) == [ok |-> FALSE, err |-> e, t |-> Tensor(<<0>>, <<>>)]

\* row r (0-based) of the flattened view of t with rows of the given width
RowOf(t, r, width) == SubSeq(t.data, r * width + 1, (r + 1) * width)

\* the multi-index (0-based) of flat offset k (0-based) in a tensor of that shape
RECURSIVE Unravel(_, _)
Unravel(k, shape) ==
    IF shape = <<>> THEN <<>>
    ELSE LET inner == Prod(Tail(shape))
         IN <<k \div inner>> \o Unravel(k % inner, Tail(shape))

\* the flat offset (0-based) of a multi-index
RECURSIVE Ravel(_, _)
Ravel(idx, shape) ==
    IF shape = <<>> THEN 0
    ELSE Head(idx) * Prod(Tail(shape)) + Ravel(Tail(idx), Tail(shape))

---------------------------------------------------------------------------
(* torch operations used by the discrepancies. *)

\* t.unsqueeze(-1): a trailing axis of size 1
UnsqueezeLast(t) == Tensor(t.shape \o <<1>>, t.data)

\* t.unsqueeze(0).expand(dim, *t.shape): a new leading axis of size dim; every
\* slice along it is t
UnsqueezeExpand0(t, dim) ==
    Tensor(<<dim>> \o t.shape, Concat([i \in 1..dim |-> t.data]))

\* torch.cat([a, b], dim=-1): all sizes but the last must agree
Cat(a, b) ==
    IF Rank(a) # Rank(b)
       \/ Prefix(a.shape, Rank(a) - 1) # Prefix(b.shape, Rank(b) - 1)
    THEN Raise(CatError)
    ELSE LET ca == Size(a, 1)
             cb == Size(b, 1)
             rows == Prod(Prefix(a.shape, Rank(a) - 1))
         IN Ok(Tensor(Prefix(a.shape, Rank(a) - 1) \o <<ca + cb>>,
                      Concat([r \in 1..rows |->
                                 RowOf(a, r - 1, ca) \o RowOf(b, r - 1, cb)])))

\* t.view(-1, t.size(-2), t.size(-1)) of a contiguous tensor
ViewFlat(t) ==
    LET l == Size(t, 2)
        c == Size(t, 1)
    IN Tensor(<<Numel(t) \div (l * c), l, c>>, t.data)

\* t.view(*batch_dims, t.size(-1)) of a (B, F) tensor
ViewBatch(t, batch_dims) == Tensor(batch_dims \o <<Size(t, 1)>>, t.data)

\* n times t.unsqueeze_(0)
UnsqueezeLeading(t, n) == Tensor(Ones(n) \o t.shape, t.data)

\* n times t.unsqueeze_(0) in place of t.unsqueeze_(-2)
UnsqueezeBeforeLast_AsLeading(t, n) == Tensor(Ones(n) \o t.shape, t.data)

\* n times t.unsqueeze_(-2)
UnsqueezeBeforeLast(t, n) ==
    Tensor(Prefix(t.shape, Rank(t) - 1) \o Ones(n) \o <<Size(t, 1)>>, t.data)

\* t.expand(*shape): same rank here; a size may change only from 1
Expand(t, shape) ==
    IF Rank(t) # Len(shape)
       \/ \E d \in 1..Len(shape) : t.shape[d] # shape[d] /\ t.shape[d] # 1
    THEN Raise(ExpandError)
    ELSE Ok(Tensor(shape,
                   [k \in 1..Prod(shape) |->
                       LET idx == Unravel(k - 1, shape)
                           src == [d \in 1..Len(shape) |->
                                      IF t.shape[d] = 1 THEN 0 ELSE idx[d]]
                       IN t.data[Ravel(src, t.shape) + 1]]))

\* a - b of two tensors of one shape
Sub(a, b) == Tensor(a.shape, [k \in 1..Len(a.data) |-> a.data[k] - b.data[k]])

\* torch.nn.functional.linear(x, weight) with no bias: y = x weight^T on the
\* last axis; weight is a sequence of rows, one per output feature
Linear(weight, x) ==
    LET fin == Size(x, 1)
        fout == Len(weight)
        rows == Prod(Prefix(x.shape, Rank(x) - 1))
    IN IF fin # Len(weight[1])
       THEN Raise(LinearError)
       ELSE Ok(Tensor(Prefix(x.shape, Rank(x) - 1) \o <<fout>>,
                      Concat([r \in 1..rows |->
                                 LET xr == RowOf(x, r - 1, fin)
                                 IN [o \in 1..fout |->
                                        SumSeq([i \in 1..fin |-> weight[o][i] * xr[i]])]])))

\* the p-norm of a vector: max |x| for p = infinity, otherwise the p-th power
\* of the norm, sum |x|^p
VecNorm(v, p) ==
    IF p = Inf THEN MaxSeq([i \in 1..Len(v) |-> Abs(v[i])])
    ELSE SumSeq([i \in 1..Len(v) |-> Pow(Abs(v[i]), p)])

\* t.norm(p=p, dim=-1)
Norm(t, p) ==
    LET f == Size(t, 1)
        rows == Prod(Prefix(t.shape, Rank(t) - 1))
    IN Tensor(Prefix(t.shape, Rank(t) - 1),
              [r \in 1..rows |-> VecNorm(RowOf(t, r - 1, f), p)])

---------------------------------------------------------------------------
(* The external logsignature primitive (signatory). *)

Divisors(k) == {e \in 1..k : k % e = 0}

RECURSIVE SumOver(_, _)
SumOver(S, f) ==
    IF S = {} THEN 0
    ELSE LET x == CHOOSE y \in S : TRUE IN f[x] + SumOver(S \ {x}, f)

\* the Moebius function
RECURSIVE Moebius(_)
Moebius(k) ==
    IF k = 1 THEN 1
    ELSE 0 - SumOver(Divisors(k) \ {k}, [e \in Divisors(k) \ {k} |-> Moebius(e)])

\* Witt's formula: the number of Lyndon words of length k on n letters
Witt(n, k) ==
    SumOver(Divisors(k), [e \in Divisors(k) |-> Moebius(e) * Pow(n, k \div e)]) \div k

\* signatory.logsignature_channels(in_channels, depth): the declared number of
\* logsignature features; raises on a depth below 1
logsignature_channels(channels, depth) ==
    IF depth < 1 \/ channels < 1
    THEN [ok |-> FALSE, err |-> SignatoryError, n |-> 0]
    ELSE [ok |-> TRUE, err |-> "",
          n |-> SumOver(1..depth, [k \in 1..depth |-> Witt(channels, k)])]

\* the logsignature of one path x (a sequence of samples, each a sequence of n
\* channel values) to the given depth, in units of 1/2: level 1 is the total
\* increment of every channel, level 2 the Levy area of every pair i < j of
\* channels (the Lyndon words of length 2, in lexicographic order)
LogsigOfPath(x, n, depth) ==
    LET len == Len(x)
        level1 == [i \in 1..n |-> 2 * (x[len][i] - x[1][i])]
        area(i, j) ==
            SumSeq([k \in 1..(len - 1) |->
                      (x[k][i] - x[1][i]) * (x[k + 1][j] - x[k][j])
                    - (x[k][j] - x[1][j]) * (x[k + 1][i] - x[k][i])])
        level2 == Concat([i \in 1..n |-> [d \in 1..(n - i) |-> area(i, i + d)]])
    IN IF depth = 1 THEN level1 ELSE level1 \o level2

\* signatory.logsignature(path, depth) of a (B, L, n) tensor: a (B, F) tensor;
\* raises on a depth below 1 and on a stream of fewer than two samples
logsignature(path, depth) ==
    LET b == path.shape[1]
        len == path.shape[2]
        n == path.shape[3]
        sample(r, k) == SubSeq(path.data, ((r - 1) * len + (k - 1)) * n + 1,
                               ((r - 1) * len + k) * n)
        feats == [r \in 1..b |->
                     LogsigOfPath([k \in 1..len |-> sample(r, k)], n, depth)]
    IN IF depth < 1 \/ len < 2 \/ n < 1
       THEN Raise(SignatoryError)
       ELSE Ok(Tensor(<<b, Len(feats[1])>>, Concat(feats)))

---------------------------------------------------------------------------
(* LogsignatureDiscrepancy. *)

\* the weight a fresh torch.nn.Linear(n, n) holds: some n x n matrix
InitialWeight(n, w) ==
    [o \in 1..n |-> [i \in 1..n |-> ((w + o * i + 2 * i + o) % 5) - 2]]

NoLinear == [none |-> TRUE, weight |-> <<>>, bias |-> <<>>]

\* the time channel forgotten
LinearFeatures_NoTime(in_channels, depth) == logsignature_channels(in_channels, depth)

\* the features of the learnt linear map: logsignature_channels of the path
\* with the time channel added
LinearFeatures(in_channels, depth) == logsignature_channels(in_channels + 1, depth)

\* torch.nn.Linear(n, n) with its default bias=True
NewLinear_WithBias(n, w) ==
    [none |-> FALSE, weight |-> InitialWeight(n, w), bias |-> [o \in 1..n |-> 1]]

\* torch.nn.Linear(n, n, bias=False) with initial weights of seed w
NewLinear(n, w) == [none |-> FALSE, weight |-> InitialWeight(n, w), bias |-> <<>>]

\* LogsignatureDiscrepancy.__init__: the module, or the error of the constructor
LogsignatureDiscrepancy_init(in_channels, depth, p, pseudometric, w) ==
    LET lc == LinearFeatures(in_channels, depth)
    IN IF pseudometric /\ ~lc.ok
       THEN [ok |-> FALSE, err |-> lc.err]
       ELSE [ok |-> TRUE, err |-> "",
             self |-> [cls |-> "LogsignatureDiscrepancy",
                       in_channels |-> in_channels,
                       depth |-> depth,
                       p |-> p,
                       pseudometric |-> pseudometric,
                       linear |-> IF pseudometric THEN NewLinear(lc.n, w)
                                  ELSE NoLinear]]

\* path.shape[:-2]
BatchDims(path) == Prefix(path.shape, Rank(path) - 2)

\* the loop of lines 69-70: one unsqueeze(0).expand per batch dimension, in
\* the order of the batch dimensions
RECURSIVE TimeChannelLoop(_, _)
TimeChannelLoop(time_channel, dims) ==
    IF dims = <<>> THEN time_channel
    ELSE TimeChannelLoop(UnsqueezeExpand0(time_channel, Head(dims)), Tail(dims))

TimeChannel(tm, batch_dims) == TimeChannelLoop(UnsqueezeLast(tm), batch_dims)

\* torch.cat([time_channel, path], dim=-1)
AppendTime(tm, path) == Cat(TimeChannel(tm, BatchDims(path)), path)

\* self.linear(x): x weight^T, plus the bias when the map has one
ApplyLinear(linear, x) ==
    LET y == Linear(linear.weight, x)
    IN IF ~y.ok \/ linear.bias = <<>> THEN y
       ELSE Ok(Tensor(y.t.shape,
                      [k \in 1..Len(y.t.data) |->
                          y.t.data[k] + linear.bias[((k - 1) % Len(linear.bias)) + 1]]))

Returned(t) == [status |-> "returned", err |-> "", value |-> t]
Raised(e) == [status |-> "raised", err |-> e, value |-> Tensor(<<0>>, <<>>)]
NoOutcome == [status |-> "none", err |-> "", value |-> Tensor(<<0>>, <<>>)]

\* lines 86-91: the two feature tensors made orthogonal and expanded
BroadcastFirst(logsignature1, dims1, dims2) ==
    Expand(UnsqueezeBeforeLast(logsignature1, Len(dims2)),
           dims1 \o dims2 \o <<Size(logsignature1, 1)>>)

BroadcastSecond(logsignature2, dims1, dims2, features1) ==
    Expand(UnsqueezeLeading(logsignature2, Len(dims1)),
           dims1 \o dims2 \o <<features1>>)

\* LogsignatureDiscrepancy.forward: what the call returns or raises
forward_result(module, tm, p1, p2) ==
    LET dims1 == BatchDims(p1)
        dims2 == BatchDims(p2)
        aug1 == AppendTime(tm, p1)
        aug2 == AppendTime(tm, p2)
    IN IF ~aug1.ok THEN Raised(aug1.err)
       ELSE IF ~aug2.ok THEN Raised(aug2.err)
       ELSE
       LET ls1 == logsignature(ViewFlat(aug1.t), module.depth)
           ls2 == logsignature(ViewFlat(aug2.t), module.depth)
       IN IF ~ls1.ok THEN Raised(ls1.err)
          ELSE IF ~ls2.ok THEN Raised(ls2.err)
          ELSE
          LET e1 == BroadcastFirst(ViewBatch(ls1.t, dims1), dims1, dims2)
              e2 == BroadcastSecond(ViewBatch(ls2.t, dims2), dims1, dims2,
                                    Size(ls1.t, 1))
          IN IF ~e1.ok THEN Raised(e1.err)
             ELSE IF ~e2.ok THEN Raised(e2.err)
             ELSE
             LET diff == Sub(e1.t, e2.t)
                 mapped == IF module.pseudometric
                           THEN ApplyLinear(module.linear, diff)
                           ELSE Ok(diff)
             IN IF ~mapped.ok THEN Raised(mapped.err)
                ELSE Returned(Norm(mapped.t, module.p))

\* the time channel written into the caller's path1 instead of a new tensor
forward_InPlace(module, tm, p1, p2) ==
    [result |-> forward_result(module, tm, p1, p2),
     self |-> module, times |-> tm,
     path1 |-> IF AppendTime(tm, p1).ok THEN AppendTime(tm, p1).t ELSE p1,
     path2 |-> p2]

\* everything a call of forward leaves behind: its result, the module and the
\* caller's tensors (the code rebinds its locals and changes no argument)
forward(module, tm, p1, p2) ==
    [result |-> forward_result(module, tm, p1, p2),
     self |-> module, times |-> tm, path1 |-> p1, path2 |-> p2]

---------------------------------------------------------------------------
(* CppDiscrepancy and L2Discrepancy. *)

\* torch.Tensor(): a tensor of shape (0,), no elements
EmptyTensor == Tensor(<<0>>, <<>>)

\* a full matrix whether or not pseudometric is set
L2Arg_AlwaysMatrix(in_channels, pseudometric, w) ==
    Tensor(<<in_channels, in_channels>>, Concat(InitialWeight(in_channels, w)))

\* the parameter L2Discrepancy hands to the kernel
L2Arg(in_channels, pseudometric, w) ==
    IF pseudometric
    THEN Tensor(<<in_channels, in_channels>>, Concat(InitialWeight(in_channels, w)))
    ELSE EmptyTensor

\* L2Discrepancy.__init__
L2Discrepancy_init(in_channels, pseudometric, w) ==
    [cls |-> "L2Discrepancy",
     in_channels |-> in_channels,
     pseudometric |-> pseudometric,
     arg |-> L2Arg(in_channels, pseudometric, w)]

\* the length check off by one
l2_degenerate_OffByOne(tm, p1) == Size(p1, 2) < 1 \/ Numel(tm) < 1

\* the kernel's degenerate-path check: fewer than two samples form no integral
l2_degenerate(tm, p1) == Size(p1, 2) < 2 \/ Numel(tm) < 2

\* _impl.l2_discrepancy(times, path1, path2, linear), the native kernel: the
\* integral over the times domain of the squared norm of the (reprojected)
\* difference of the two piecewise-linear paths, for every pair of batch
\* elements, in units of 1/3.  An empty linear is the identity.
l2_discrepancy(tm, p1, p2, linear) ==
    LET len == Size(p1, 2)
        c == Size(p1, 1)
        dims1 == BatchDims(p1)
        dims2 == BatchDims(p2)
        sample(p, r, k) == SubSeq(p.data, ((r - 1) * len + (k - 1)) * c + 1,
                                  ((r - 1) * len + k) * c)
        project(v) == IF Numel(linear) = 0 THEN v
                      ELSE [o \in 1..c |->
                               SumSeq([i \in 1..c |-> linear.data[(o - 1) * c + i] * v[i]])]
        diff(r1, r2, k) == LET a == sample(p1, r1, k)
                               b == sample(p2, r2, k)
                           IN project([i \in 1..c |-> a[i] - b[i]])
        dot(u, v) == SumSeq([i \in 1..c |-> u[i] * v[i]])
        segment(r1, r2, k) == LET d0 == diff(r1, r2, k)
                                  d1 == diff(r1, r2, k + 1)
                              IN (tm.data[k + 1] - tm.data[k])
                                 * (dot(d0, d0) + dot(d0, d1) + dot(d1, d1))
        pair(r1, r2) == SumSeq([k \in 1..(len - 1) |-> segment(r1, r2, k)])
        n1 == Prod(dims1)
        n2 == Prod(dims2)
    IN IF l2_degenerate(tm, p1) THEN Raised("DegeneratePathError")
       ELSE IF \/ Size(p2, 1) # c
               \/ Size(p2, 2) # len
               \/ Numel(tm) # len
               \/ (Numel(linear) # 0 /\ linear.shape # <<c, c>>)
       THEN Raised("ShapeMismatchError")
       ELSE Returned(Tensor(dims1 \o dims2,
                            [k \in 1..(n1 * n2) |->
                                pair(((k - 1) \div n2) + 1, ((k - 1) % n2) + 1)]))

\* CppDiscrepancy.forward: self.fn(time, path1, path2, self.arg); everything
\* the call leaves behind, and the parameter it handed to fn
CppDiscrepancy_forward(module, tm, p1, p2) ==
    [result |-> l2_discrepancy(tm, p1, p2, module.arg),
     passed |-> module.arg,
     self |-> module, times |-> tm, path1 |-> p1, path2 |-> p2]

---------------------------------------------------------------------------
(* The tensors a caller hands in. *)

\* batch shapes: dimensions of sizes 1..MaxDim, at most MaxBatch batch elements
BatchShapes ==
    {s \in UNION {[1..r -> 1..MaxDim] : r \in BatchRanks} : Prod(s) <= MaxBatch}

\* a strictly increasing, non-uniform times vector of the given length
TimesOf(len) == Tensor(<<len>>, [k \in 1..len |-> ((k * (k + 1)) \div 2) - 1])

\* a path tensor of batch shape dims: the values of batch element b, sample k
\* and channel c (all 0-based) for the given seed
PathOf(dims, len, c, seed) ==
    Tensor(dims \o <<len, c>>,
           [n \in 1..(Prod(dims) * len * c) |->
               LET idx == Unravel(n - 1, <<Prod(dims), len, c>>)
               IN ((seed + idx[1] + 1) * (idx[2] + 1) * (idx[2] + 1)
                   + (idx[3] + 1) * idx[2] + seed * idx[3]) % 3])

---------------------------------------------------------------------------
(* The state machine: a module is constructed, called, and (under           *)
(* SpecRepeated) called again with the tensors the caller still holds.       *)

NoModule == [cls |-> "none"]
\* get_data has not run: nothing read from the dataset files, no
\* missing-value pass
NoFiles == [X |-> Tensor(<<0>>, <<>>), y |-> <<>>]
NoMissing == [rate |-> 0, batch_index |-> 0, channel_index |-> 0, removed |-> <<>>]
\* no dataset object exists; attrs maps the names of the attributes assigned
\* so far to their values
NoObject == [cls |-> "none", attrs |-> <<>>, args |-> <<>>]
\* no experiment driver runs.  Of a running driver: position counts the
\* passes of its innermost loop so far; of the last pass, config is the
\* configuration, asked the arguments given to common.assert_not_done, answer
\* what it returned, ran the folders main gave to common.main (<<>> when main
\* was not called)
NoDriver == [fn |-> "none", position |-> 0, config |-> <<>>, asked |-> <<>>,
             answer |-> FALSE, ran |-> <<>>]

Init ==
    /\ pc = "start"
    /\ self = NoModule
    /\ times = EmptyTensor
    /\ path1 = EmptyTensor
    /\ path2 = EmptyTensor
    /\ out = NoOutcome
    /\ out2 = NoOutcome
    /\ fn_arg = EmptyTensor
    /\ loaded = NoFiles
    /\ all_X = EmptyTensor
    /\ all_y = <<>>
    /\ missing = NoMissing
    /\ dataset = NoObject
    /\ driver = NoDriver

\* LogsignatureDiscrepancy(in_channels, depth, p, pseudometric)
ConstructLogsignature ==
    /\ pc = "start"
    /\ \E in_channels \in 1..MaxChannels, depth \in Depths, p \in Norms,
          pseudometric \in BOOLEAN, w \in WeightSeeds :
          \E r \in {LogsignatureDiscrepancy_init(in_channels, depth, p, pseudometric, w)} :
             IF r.ok
             THEN /\ self' = r.self
                  /\ pc' = "constructed"
                  /\ out' = out
             ELSE /\ self' = self
                  /\ pc' = "init_raised"
                  /\ out' = Raised(r.err)
    /\ UNCHANGED <<times, path1, path2, out2, fn_arg>>
    /\ UNCHANGED <<vars_data, vars_dataset, vars_driver>>

\* L2Discrepancy(in_channels, pseudometric)
ConstructL2 ==
    /\ pc = "start"
    /\ \E in_channels \in 1..MaxChannels, pseudometric \in BOOLEAN, w \in WeightSeeds :
          self' = L2Discrepancy_init(in_channels, pseudometric, w)
    /\ pc' = "constructed"
    /\ UNCHANGED <<times, path1, path2, out, out2, fn_arg>>
    /\ UNCHANGED <<vars_data, vars_dataset, vars_driver>>

\* discrepancy(times, path1, path2) on a LogsignatureDiscrepancy, with tensors
\* the caller has just made; their channel counts are drawn from channels
CallLogsignatureWith(channels) ==
    /\ pc = "constructed"
    /\ self.cls = "LogsignatureDiscrepancy"
    /\ \E len \in 1..MaxLen, dims1 \in BatchShapes, dims2 \in BatchShapes,
          c1 \in channels, c2 \in channels, seed \in Seeds :
          \E e \in {forward(self, TimesOf(len), PathOf(dims1, len, c1, 0),
                           PathOf(dims2, len, c2, seed))} :
             /\ out' = e.result
             /\ self' = e.self
             /\ times' = e.times
             /\ path1' = e.path1
             /\ path2' = e.path2
    /\ pc' = "called"
    /\ UNCHANGED <<out2, fn_arg>>
    /\ UNCHANGED <<vars_data, vars_dataset, vars_driver>>

\* the same call once more, with the tensors the caller holds
RecallLogsignature ==
    /\ pc = "called"
    /\ self.cls = "LogsignatureDiscrepancy"
    /\ \E e \in {forward(self, times, path1, path2)} :
          /\ out2' = e.result
          /\ self' = e.self
          /\ times' = e.times
          /\ path1' = e.path1
          /\ path2' = e.path2
    /\ pc' = "recalled"
    /\ UNCHANGED <<out, fn_arg>>
    /\ UNCHANGED <<vars_data, vars_dataset, vars_driver>>

\* discrepancy(times, path1, path2) on an L2Discrepancy (CppDiscrepancy.forward)
CallCppWith(channels) ==
    /\ pc = "constructed"
    /\ self.cls = "L2Discrepancy"
    /\ \E len \in 1..MaxLen, dims1 \in BatchShapes, dims2 \in BatchShapes,
          c1 \in channels, c2 \in channels, seed \in Seeds :
          \E e \in {CppDiscrepancy_forward(self, TimesOf(len), PathOf(dims1, len, c1, 0),
                                          PathOf(dims2, len, c2, seed))} :
             /\ out' = e.result
             /\ fn_arg' = e.passed
             /\ self' = e.self
             /\ times' = e.times
             /\ path1' = e.path1
             /\ path2' = e.path2
    /\ pc' = "called"
    /\ UNCHANGED out2
    /\ UNCHANGED <<vars_data, vars_dataset, vars_driver>>

RecallCpp ==
    /\ pc = "called"
    /\ self.cls = "L2Discrepancy"
    /\ \E e \in {CppDiscrepancy_forward(self, times, path1, path2)} :
          /\ out2' = e.result
          /\ fn_arg' = e.passed
          /\ self' = e.self
          /\ times' = e.times
          /\ path1' = e.path1
          /\ path2' = e.path2
    /\ pc' = "recalled"
    /\ UNCHANGED out
    /\ UNCHANGED <<vars_data, vars_dataset, vars_driver>>

\* a caller that keeps the channel invariant: both paths have the module's
\* in_channels channels
CallLogsignature == CallLogsignatureWith({self.in_channels})

CallCpp == CallCppWith({self.in_channels})

\* a caller that hands in paths of any channel counts
CallLogsignatureAnyChannels == CallLogsignatureWith(1..MaxChannels)

CallCppAnyChannels == CallCppWith(1..MaxChannels)

\* a module is constructed and called once
Next ==
    \/ ConstructLogsignature
    \/ ConstructL2
    \/ CallLogsignature
    \/ CallCpp

Spec == Init /\ [][Next]_vars

\* a module is constructed, called, and called again
NextRepeated ==
    \/ ConstructLogsignature
    \/ ConstructL2
    \/ CallLogsignature
    \/ RecallLogsignature
    \/ CallCpp
    \/ RecallCpp

SpecRepeated == Init /\ [][NextRepeated]_vars

\* a module is constructed and called once, with paths of any channel counts
NextAnyChannels ==
    \/ ConstructLogsignature
    \/ ConstructL2
    \/ CallLogsignatureAnyChannels
    \/ CallCppAnyChannels

SpecAnyChannels == Init /\ [][NextAnyChannels]_vars

---------------------------------------------------------------------------
(* get_data (experiments/uea.py).  Series values are integers, chosen as     *)
(* multiples of (L - 1)! so that every linear interpolant on the times       *)
(* 0..L-1 is an integer too; floating-point rounding is left out.  The       *)
(* train/validation split and the normalisation (sklearn, common) are        *)
(* external and do not touch the label codes or times; they are left out.    *)

RECURSIVE Factorial(_)
Factorial(n) == IF n <= 0 THEN 1 ELSE n * Factorial(n - 1)

Min(a, b) == IF a < b THEN a ELSE b

RECURSIVE Reverse(_)
Reverse(s) == IF s = <<>> THEN <<>> ELSE Append(Reverse(Tail(s)), Head(s))

\* the elements of a set of integers in increasing order
RECURSIVE SortedSeq(_)
SortedSeq(S) ==
    IF S = {} THEN <<>>
    ELSE LET m == CHOOSE x \in S : \A y \in S : x <= y
         IN <<m>> \o SortedSeq(S \ {m})

\* torch.linspace(start, end, steps)
linspace(start, end, steps) ==
    Tensor(<<steps>>,
           [k \in 1..steps |->
               IF steps = 1 THEN start
               ELSE start + ((k - 1) * (end - start)) \div (steps - 1)])

\* the series of a dataset of n series of length len with c channels, as the
\* (n, len, c) tensor of lines 128-132
SeriesOf(n, len, c) ==
    Tensor(<<n, len, c>>,
           [i \in 1..(n * len * c) |->
               LET b == (i - 1) \div (len * c)
                   k == ((i - 1) \div c) % len
                   ch == (i - 1) % c
               IN Factorial(len - 1)
                  * (((b + 1) * k * k + ch * k + b + 2 * ch) % 5)])

\* all_X[batch_index, point, channel_index], all 0-based
At(X, batch_index, point, channel_index) ==
    X.data[(batch_index * X.shape[2] + point) * X.shape[3] + channel_index + 1]

\* int(all_X.size(1) * missing_rate), the rate in percent
NumRemoved(len, rate) == (len * rate) \div 100

\* the values torch.randperm(len - 2) + 1 can take, cut to the first
\* int(len * missing_rate) entries and sorted: every choice of that many
\* (or, when there are fewer, of all) of the points 1..len-2, in increasing order
RemovedPoints(len, rate) ==
    {SortedSeq(R) : R \in {Q \in SUBSET (1..(len - 2)) :
                             Cardinality(Q) = Min(NumRemoved(len, rate), len - 2)}}

\* lines 152-156: the loop over removed_points[1:]
RECURSIVE PrevLoop(_, _, _, _)
PrevLoop(rest, prev_removed_point, prev_unremoved_point, prev_unremoved_points) ==
    IF rest = <<>> THEN prev_unremoved_points
    ELSE LET removed_point == Head(rest)
             unremoved == IF prev_removed_point # removed_point - 1
                          THEN removed_point - 1
                          ELSE prev_unremoved_point
         IN PrevLoop(Tail(rest), removed_point, unremoved,
                     Append(prev_unremoved_points, unremoved))

\* lines 149-156: for every removed point the point before its run
PrevUnremovedPoints(removed_points) ==
    PrevLoop(Tail(removed_points), removed_points[1], removed_points[1] - 1,
             <<removed_points[1] - 1>>)

\* lines 161-165: the loop over reversed(removed_points[:-1])
RECURSIVE NextLoop(_, _, _, _)
NextLoop(rest, next_removed_point, next_unremoved_point, next_unremoved_points) ==
    IF rest = <<>> THEN next_unremoved_points
    ELSE LET removed_point == Head(rest)
             unremoved == IF next_removed_point # removed_point + 1
                          THEN removed_point + 1
                          ELSE next_unremoved_point
         IN NextLoop(Tail(rest), removed_point, unremoved,
                     Append(next_unremoved_points, unremoved))

\* lines 158-166: for every removed point the point after its run
NextUnremovedPoints(removed_points) ==
    LET last == removed_points[Len(removed_points)]
    IN Reverse(NextLoop(Reverse(Prefix(removed_points, Len(removed_points) - 1)),
                        last, last + 1, <<last + 1>>))

\* the point after the removed point taken for the next unremoved point
Interpolate_NextNeighbour(X, tm, batch_index, channel_index, prev_unremoved_point, removed_point, next_unremoved_point) ==
    LET prev_stream == At(X, batch_index, prev_unremoved_point, channel_index)
        next_stream == At(X, batch_index, removed_point + 1, channel_index)
        prev_time == tm.data[prev_unremoved_point + 1]
        next_time == tm.data[removed_point + 2]
        time == tm.data[removed_point + 1]
        at == (batch_index * X.shape[2] + removed_point) * X.shape[3]
              + channel_index + 1
    IN Tensor(X.shape,
              [X.data EXCEPT ![at] =
                  prev_stream + ((time - prev_time) * (next_stream - prev_stream))
                                \div (next_time - prev_time)])

\* lines 170-177: one removed point of the stream all_X[batch_index, :,
\* channel_index] overwritten in place with the interpolated value
Interpolate(X, tm, batch_index, channel_index, prev_unremoved_point, removed_point, next_unremoved_point) ==
    LET prev_stream == At(X, batch_index, prev_unremoved_point, channel_index)
        next_stream == At(X, batch_index, next_unremoved_point, channel_index)
        prev_time == tm.data[prev_unremoved_point + 1]
        next_time == tm.data[next_unremoved_point + 1]
        time == tm.data[removed_point + 1]
        at == (batch_index * X.shape[2] + removed_point) * X.shape[3]
              + channel_index + 1
    IN Tensor(X.shape,
              [X.data EXCEPT ![at] =
                  prev_stream + ((time - prev_time) * (next_stream - prev_stream))
                                \div (next_time - prev_time)])

\* lines 167-177: the loop over the zipped lists
RECURSIVE InterpolateLoop(_, _, _, _, _, _, _)
InterpolateLoop(X, tm, batch_index, channel_index, prevs, removed_points, nexts) ==
    IF prevs = <<>> \/ removed_points = <<>> \/ nexts = <<>> THEN X
    ELSE InterpolateLoop(Interpolate(X, tm, batch_index, channel_index,
                                     Head(prevs), Head(removed_points), Head(nexts)),
                         tm, batch_index, channel_index,
                         Tail(prevs), Tail(removed_points), Tail(nexts))

\* lines 146-177, the body of the loops over batch_index and channel_index
\* for the removed points drawn: the data afterwards, or the error raised
RemoveAndInterpolate(X, tm, batch_index, channel_index, removed_points) ==
    IF removed_points = <<>>
    THEN Raise("IndexError: index 0 is out of bounds for dimension 0 with size 0")
    ELSE Ok(InterpolateLoop(X, tm, batch_index, channel_index,
                            PrevUnremovedPoints(removed_points), removed_points,
                            NextUnremovedPoints(removed_points)))

\* every label given a new code, seen before or not
RECURSIVE Targets_EveryLabelNew(_, _)
Targets_EveryLabelNew(ys, targets) ==
    IF ys = <<>> THEN targets
    ELSE Targets_EveryLabelNew(Tail(ys), Append(targets, Head(ys)))

\* lines 180-185: the keys of the OrderedDict targets in insertion order; the
\* code of a label is its position, from 0
RECURSIVE Targets(_, _)
Targets(ys, targets) ==
    IF ys = <<>> THEN targets
    ELSE Targets(Tail(ys),
                 IF \E i \in 1..Len(targets) : targets[i] = Head(ys)
                 THEN targets ELSE Append(targets, Head(ys)))

\* targets[yi]
TargetOf(targets, yi) == (CHOOSE i \in 1..Len(targets) : targets[i] = yi) - 1

\* lines 116-139: the files are read, the series stacked, times made
LoadData ==
    /\ pc = "start"
    /\ \E n \in SeriesCounts, len \in 1..MaxSeriesLen, c \in ChannelCounts,
          rate \in MissingRates :
          \E y \in [1..n -> Labels] :
             /\ loaded' = [X |-> SeriesOf(n, len, c), y |-> y]
             /\ all_X' = SeriesOf(n, len, c)
             /\ all_y' = y
             /\ times' = linspace(0, len - 1, len)
             /\ missing' = [rate |-> rate, batch_index |-> 0, channel_index |-> 0,
                            removed |-> <<>>]
    /\ pc' = "loaded"
    /\ UNCHANGED <<vars_discrepancy, out, vars_dataset, vars_driver>>

\* lines 144-177: one pass of the loops over batch_index and channel_index
MissingPass ==
    /\ pc = "loaded"
    /\ missing.rate > 0
    /\ missing.batch_index < all_X.shape[1]
    /\ IF all_X.shape[2] < 2
       THEN /\ pc' = "raised"
            /\ out' = Raised("RuntimeError: randperm: n must be non-negative")
            /\ UNCHANGED <<all_X, missing>>
       ELSE \E removed_points \in RemovedPoints(all_X.shape[2], missing.rate) :
               \E r \in {RemoveAndInterpolate(all_X, times, missing.batch_index,
                                              missing.channel_index, removed_points)} :
                  IF r.ok
                  THEN /\ all_X' = r.t
                       /\ missing' =
                            [missing EXCEPT
                               !.removed = Append(@, removed_points),
                               !.channel_index = (@ + 1) % all_X.shape[3],
                               !.batch_index = IF missing.channel_index + 1 = all_X.shape[3]
                                               THEN @ + 1 ELSE @]
                       /\ pc' = pc
                       /\ out' = out
                  ELSE /\ pc' = "raised"
                       /\ out' = Raised(r.err)
                       /\ UNCHANGED <<all_X, missing>>
    /\ UNCHANGED <<vars_discrepancy, loaded, all_y, times, vars_dataset, vars_driver>>

\* lines 179-215: the labels made integers, the classes counted, the return
FixLabels ==
    /\ pc = "loaded"
    /\ missing.rate = 0 \/ missing.batch_index = all_X.shape[1]
    /\ \E targets \in {Targets(all_y, <<>>)} :
          /\ all_y' = [i \in 1..Len(all_y) |-> TargetOf(targets, all_y[i])]
          /\ IF Len(targets) >= 2
             THEN /\ pc' = "returned"
                  /\ out' = [status |-> "returned", err |-> "",
                             value |-> [times |-> times,
                                        num_classes |-> Len(targets),
                                        input_channels |-> all_X.shape[3]]]
             ELSE /\ pc' = "raised"
                  /\ out' = Raised("AssertionError: Have only 1 classes.")
    /\ UNCHANGED <<vars_discrepancy, loaded, all_X, times, missing, vars_dataset, vars_driver>>

\* get_data is called once
NextData ==
    \/ LoadData
    \/ MissingPass
    \/ FixLabels

SpecData == Init /\ [][NextData]_vars

---------------------------------------------------------------------------
(* ShapeletDataset, PointsDataset and SigletDataset (src/models/dataset.py). *)
(* An object is a record [cls, attrs, args]: attrs maps every attribute      *)
(* assigned so far to its value, args are the arguments of the constructor.  *)
(* Reading an attribute that was never assigned raises AttributeError.       *)

HasAttr(obj, name) == name \in DOMAIN obj.attrs

\* self.<name> = value
SetAttr(obj, name, value) ==
    [obj EXCEPT !.attrs = [n \in (DOMAIN obj.attrs) \cup {name} |->
                              IF n = name THEN value ELSE obj.attrs[n]]]

AttributeError(obj, name) ==
    "AttributeError: '" \o obj.cls \o "' object has no attribute '" \o name \o "'"

\* pytorch_rolling(data, dimension=1, window_size): the windows of window_size
\* consecutive samples, one per start point, as an (N, windows, C, W) tensor
pytorch_rolling(data, window_size) ==
    LET n == data.shape[1]
        c == data.shape[3]
        windows == data.shape[2] - window_size + 1
    IN Tensor(<<n, windows, c, window_size>>,
              [i \in 1..(n * windows * c * window_size) |->
                  LET b == (i - 1) \div (windows * c * window_size)
                      start == ((i - 1) \div (c * window_size)) % windows
                      ch == ((i - 1) \div window_size) % c
                      w == (i - 1) % window_size
                  IN At(data, b, start + w, ch)])

\* ShapeletDataset.roll_data
roll_data(obj, data) == pytorch_rolling(data, obj.attrs["window_size"])

\* data_rolled.reshape(-1, C, W).transpose(1, 2): an (N * windows, W, C) tensor
Tricked(data_rolled, c, window_size) ==
    LET rows == Numel(data_rolled) \div (c * window_size)
    IN Tensor(<<rows, window_size, c>>,
              [i \in 1..(rows * window_size * c) |->
                  LET r == (i - 1) \div (window_size * c)
                      w == ((i - 1) \div c) % window_size
                      ch == (i - 1) % c
                  IN data_rolled.data[(r * c + ch) * window_size + w + 1]])

\* apply_augmentation_list(data, aug_list): 'addtime' puts a channel holding
\* the position of the sample in front of the channels
RECURSIVE apply_augmentation_list(_, _)
apply_augmentation_list(data, aug_list) ==
    IF aug_list = <<>> THEN data
    ELSE LET len == data.shape[2]
             c == data.shape[3]
             timed == Tensor(<<data.shape[1], len, c + 1>>,
                             [i \in 1..(data.shape[1] * len * (c + 1)) |->
                                 LET r == (i - 1) \div (len * (c + 1))
                                     w == ((i - 1) \div (c + 1)) % len
                                     ch == (i - 1) % (c + 1)
                                 IN IF ch = 0 THEN w
                                    ELSE data.data[(r * len + w) * c + ch]])
         IN apply_augmentation_list(IF Head(aug_list) = "addtime" THEN timed ELSE data,
                                    Tail(aug_list))

\* PointsDataset._init_data: the windows flattened to (N, windows, C * W)
PointsDataset_init_data(obj, data) ==
    LET data_rolled == roll_data(obj, data)
    IN Returned(Tensor(<<data_rolled.shape[1], data_rolled.shape[2],
                         data_rolled.shape[3] * data_rolled.shape[4]>>,
                       data_rolled.data))

\* SigletDataset._init_data: the logsignatures of the windows as an
\* (N, windows, SIG_DIM) tensor, or the error raised on the way
SigletDataset_init_data(obj, data) ==
    LET data_rolled == roll_data(obj, data)
        data_tricked == Tricked(data_rolled, data.shape[3], obj.attrs["window_size"])
    IN IF ~HasAttr(obj, "aug_list") THEN Raised(AttributeError(obj, "aug_list"))
       ELSE IF ~HasAttr(obj, "depth") THEN Raised(AttributeError(obj, "depth"))
       ELSE LET data_augs == apply_augmentation_list(data_tricked, obj.attrs["aug_list"])
                signatures == logsignature(data_augs, obj.attrs["depth"])
            IN IF ~signatures.ok THEN Raised(signatures.err)
               ELSE Returned(Tensor(<<data_rolled.shape[1], data_rolled.shape[2],
                                      signatures.t.shape[2]>>,
                                    signatures.t.data))

\* self._init_data(data), dispatched on the class of the object
init_data(obj, data) ==
    IF obj.cls = "SigletDataset" THEN SigletDataset_init_data(obj, data)
    ELSE PointsDataset_init_data(obj, data)

\* ShapeletDataset.__init__: labels and window_size are assigned, then the
\* data is initialised; the result is the object and the outcome of the call
ShapeletDataset_init(obj, data, labels, window_size) ==
    LET with_size == SetAttr(SetAttr(obj, "labels", labels), "window_size", window_size)
        r == init_data(with_size, data)
    IN IF r.status = "raised" THEN [obj |-> with_size, result |-> r]
       ELSE [obj |-> SetAttr(with_size, "data", r.value), result |-> r]

\* SigletDataset.__init__: the base constructor first, then depth and aug_list
SigletDataset_init(data, labels, window_size, depth, aug_list) ==
    LET fresh == [cls |-> "SigletDataset", attrs |-> <<>>,
                  args |-> <<data, labels, window_size, depth, aug_list>>]
        base == ShapeletDataset_init(fresh, data, labels, window_size)
    IN IF base.result.status = "raised" THEN base
       ELSE [obj |-> SetAttr(SetAttr(base.obj, "depth", depth), "aug_list", aug_list),
             result |-> base.result]

\* PointsDataset.__init__
PointsDataset_init(data, labels, window_size) ==
    ShapeletDataset_init([cls |-> "PointsDataset", attrs |-> <<>>,
                          args |-> <<data, labels, window_size>>],
                         data, labels, window_size)

\* SigletDataset(data, labels, window_size, depth, aug_list) on data of shape
\* (N, L, C) with a window that fits the series
ConstructSiglet ==
    /\ pc = "start"
    /\ \E n \in SeriesCounts, len \in 1..MaxSeriesLen, c \in ChannelCounts,
          depth \in Depths, aug_list \in AugLists :
          \E window_size \in 1..len, labels \in [1..n -> Labels] :
             \E r \in {SigletDataset_init(SeriesOf(n, len, c), labels, window_size,
                                          depth, aug_list)} :
                /\ dataset' = r.obj
                /\ out' = r.result
                /\ pc' = IF r.result.status = "raised" THEN "raised" ELSE "constructed"
    /\ UNCHANGED <<vars_discrepancy, times, vars_data, vars_driver>>

\* PointsDataset(data, labels, window_size)
ConstructPoints ==
    /\ pc = "start"
    /\ \E n \in SeriesCounts, len \in 1..MaxSeriesLen, c \in ChannelCounts :
          \E window_size \in 1..len, labels \in [1..n -> Labels] :
             \E r \in {PointsDataset_init(SeriesOf(n, len, c), labels, window_size)} :
                /\ dataset' = r.obj
                /\ out' = r.result
                /\ pc' = IF r.result.status = "raised" THEN "raised" ELSE "constructed"
    /\ UNCHANGED <<vars_discrepancy, times, vars_data, vars_driver>>

\* a dataset object is constructed
NextDataset ==
    \/ ConstructSiglet
    \/ ConstructPoints

SpecDataset == Init /\ [][NextDataset]_vars

---------------------------------------------------------------------------
(* The experiment drivers (experiments/uea.py).  Proportions and rates are   *)
(* in hundredths.  common.assert_not_done and common.main are external: the  *)
(* first answers either way, of the second the folders it is given are kept. *)

datasets_by_cost ==
    <<"ERing", "RacketSports", "PenDigits", "BasicMotions", "Libras",
      "JapaneseVowels", "FingerMovements", "Epilepsy", "LSST", "Handwriting">>

\* (dataset, shapelets per class, length proportion)
old_hyperparameter_output ==
    << <<"PenDigits", 5, 50>>, <<"JapaneseVowels", 2, 50>>, <<"RacketSports", 3, 50>>,
       <<"Libras", 5, 100>>, <<"ERing", 2, 50>>, <<"BasicMotions", 2, 50>>,
       <<"NATOPS", 3, 50>>, <<"LSST", 2, 100>>, <<"FingerMovements", 3, 100>>,
       <<"Handwriting", 3, 50>>, <<"Epilepsy", 5, 50>> >>

\* (dataset, shapelets per class, best and worst length proportion)
l2_hyperparameter_output ==
    << <<"JapaneseVowels", 3, 15, 50>>, <<"Libras", 2, 100, 15>>, <<"LSST", 2, 30, 100>> >>

\* str(x) of the float x = hundredths / 100
str_float(hundredths) ==
    LET frac == hundredths % 100
    IN ToString(hundredths \div 100) \o "."
       \o (IF frac % 10 = 0 THEN ToString(frac \div 10)
           ELSE (IF frac < 10 THEN "0" ELSE "") \o ToString(frac))

\* str(b) of a bool
str_bool(b) == IF b THEN "True" ELSE "False"

\* a dash put between the dataset name and the detail as well
subfolder_DashBeforeDetail(dataset_name, dataset_detail, result_subfolder) ==
    dataset_name \o "-" \o dataset_detail \o "-" \o result_subfolder

\* _subfolder (the name without its leading underscore)
subfolder(dataset_name, dataset_detail, result_subfolder) ==
    dataset_name \o dataset_detail \o "-" \o result_subfolder

\* main: the (result_folder, subfolder) it gives to common.main
main(dataset_name, result_folder, result_subfolder, dataset_detail) ==
    <<result_folder, subfolder(dataset_name, dataset_detail, result_subfolder)>>

\* the default of main's dataset_detail
DefaultDatasetDetail == ""

\* one pass of a driver's loop: assert_not_done is asked about (result_folder,
\* asked_subfolder) and answers; main is called if the answer is true
DriverPass(config, asked_subfolder, n_done) ==
    \E answer \in BOOLEAN :
       driver' = [driver EXCEPT
                     !.position = @ + 1,
                     !.config = config,
                     !.asked = <<config.result_folder, asked_subfolder, n_done>>,
                     !.answer = answer,
                     !.ran = IF answer
                             THEN main(config.dataset_name, config.result_folder,
                                       config.result_subfolder, config.dataset_detail)
                             ELSE <<>>]

\* the function named on the command line starts
StartDriver ==
    /\ pc = "start"
    /\ \E fn \in {"hyperparameter_search_old", "hyperparameter_search_l2",
                  "comparison_test", "missing_and_length_test"} :
          driver' = [NoDriver EXCEPT !.fn = fn]
    /\ pc' = "driving"
    /\ UNCHANGED <<vars_discrepancy, times, out, vars_data, vars_dataset>>

\* the configuration of pass number position (from 0) of the loops of
\* hyperparameter_search_old and hyperparameter_search_l2
SearchConfig(result_folder, position) ==
    LET dataset_name == datasets_by_cost[(position \div 12) + 1]
        num_shapelets_per_class == <<2, 3, 5>>[((position \div 4) % 3) + 1]
        max_shapelet_length_proportion == <<15, 30, 50, 100>>[(position % 4) + 1]
    IN [dataset_name |-> dataset_name,
        result_folder |-> result_folder,
        result_subfolder |-> "old-" \o ToString(num_shapelets_per_class) \o "-"
                             \o str_float(max_shapelet_length_proportion),
        dataset_detail |-> DefaultDatasetDetail]

\* one pass of the loops of hyperparameter_search_old
hyperparameter_search_old ==
    /\ pc = "driving"
    /\ driver.fn = "hyperparameter_search_old"
    /\ driver.position < Len(datasets_by_cost) * 12
    /\ LET config == SearchConfig("uea_hyperparameter_search", driver.position)
       IN DriverPass(config, config.dataset_name \o "-" \o config.result_subfolder, 1)
    /\ UNCHANGED <<pc, vars_discrepancy, times, out, vars_data, vars_dataset>>

\* one pass of the loops of hyperparameter_search_l2
hyperparameter_search_l2 ==
    /\ pc = "driving"
    /\ driver.fn = "hyperparameter_search_l2"
    /\ driver.position < Len(datasets_by_cost) * 12
    /\ LET config == SearchConfig("uea_hyperparameter_search_l2", driver.position)
       IN DriverPass(config, config.dataset_name \o "-" \o config.result_subfolder, 1)
    /\ UNCHANGED <<pc, vars_discrepancy, times, out, vars_data, vars_dataset>>

\* the configuration of pass number position (from 0) of comparison_test: for
\* every repetition and dataset the discrepancies L2 and logsig-3, then 'old'
ComparisonConfig(position) ==
    LET row == old_hyperparameter_output[((position \div 3) % Len(old_hyperparameter_output)) + 1]
        which == position % 3
        discrepancy_fn == IF which = 0 THEN "L2" ELSE "logsig-3"
    IN [dataset_name |-> row[1],
        result_folder |-> "uea_comparison",
        result_subfolder |-> IF which = 2 THEN "old"
                             ELSE IF discrepancy_fn = "logsig-3"
                                  THEN discrepancy_fn \o "diagonal"
                                  ELSE discrepancy_fn \o "-diagonal",
        dataset_detail |-> DefaultDatasetDetail]

\* one pass of the loops of comparison_test
comparison_test ==
    /\ pc = "driving"
    /\ driver.fn = "comparison_test"
    /\ driver.position < 3 * Len(old_hyperparameter_output) * 3
    /\ LET config == ComparisonConfig(driver.position)
       IN DriverPass(config, subfolder(config.dataset_name, "", config.result_subfolder), 3)
    /\ UNCHANGED <<pc, vars_discrepancy, times, out, vars_data, vars_dataset>>

\* the configuration of pass number position (from 0) of missing_and_length_test
MissingConfig(position) ==
    LET row == l2_hyperparameter_output[((position \div 6) % Len(l2_hyperparameter_output)) + 1]
        missing_rate == <<10, 30, 50>>[((position \div 2) % 3) + 1]
        learntlengths == (position % 2 = 0)
    IN [dataset_name |-> row[1],
        result_folder |-> "uea_missing_and_length",
        result_subfolder |-> "L2" \o "-" \o str_bool(learntlengths),
        dataset_detail |-> ToString(missing_rate)]

\* one pass of the loops of missing_and_length_test
missing_and_length_test ==
    /\ pc = "driving"
    /\ driver.fn = "missing_and_length_test"
    /\ driver.position < 3 * Len(l2_hyperparameter_output) * 6
    /\ LET config == MissingConfig(driver.position)
       IN DriverPass(config, subfolder(config.dataset_name, config.dataset_detail,
                                       config.result_subfolder), 3)
    /\ UNCHANGED <<pc, vars_discrepancy, times, out, vars_data, vars_dataset>>

\* one experiment driver runs
NextDriver ==
    \/ StartDriver
    \/ hyperparameter_search_old
    \/ hyperparameter_search_l2
    \/ comparison_test
    \/ missing_and_length_test

SpecDriver == Init /\ [][NextDriver]_vars

---------------------------------------------------------------------------
(* Vocabulary of the properties. *)

IsLogsignature == self.cls = "LogsignatureDiscrepancy"
IsL2 == self.cls = "L2Discrepancy"

\* sample k of batch element r (both 1-based, r in row-major order of the
\* batch dimensions) of a path tensor: its channel values
Sample(path, r, k) ==
    LET len == Size(path, 2)
        c == Size(path, 1)
    IN SubSeq(path.data, ((r - 1) * len + (k - 1)) * c + 1, ((r - 1) * len + k) * c)

\* batch element r of a path with the time put in front of every sample
AugmentedElement(tm, path, r) ==
    [k \in 1..Size(path, 2) |-> <<tm.data[k]>> \o Sample(path, r, k)]

\* the logsignature of batch element r of a path, time channel added
ElementFeatures(tm, path, r, depth) ==
    LogsigOfPath(AugmentedElement(tm, path, r), Size(path, 1) + 1, depth)

\* M v: the weight matrix times v, or v itself when there is no matrix
MapVec(linear, v) ==
    IF linear.none THEN v
    ELSE [o \in 1..Len(linear.weight) |->
             SumSeq([i \in 1..Len(v) |-> linear.weight[o][i] * v[i]])]

\* the distance of batch element i of path1 and batch element j of path2
PairDistance(i, j) ==
    LET f1 == ElementFeatures(times, path1, i, self.depth)
        f2 == ElementFeatures(times, path2, j, self.depth)
    IN VecNorm(MapVec(self.linear, [n \in 1..Len(f1) |-> f1[n] - f2[n]]), self.p)

\* the entry of the result at the index tuple of batch element i of path1
\* followed by the index tuple of batch element j of path2
ResultEntry(i, j) ==
    LET dims1 == BatchDims(path1)
        dims2 == BatchDims(path2)
    IN out.value.data[Ravel(Unravel(i - 1, dims1) \o Unravel(j - 1, dims2),
                            dims1 \o dims2) + 1]

ShapeErrors == {CatError, ExpandError, LinearError, "ShapeMismatchError"}

---------------------------------------------------------------------------
(* Properties. *)

\* C1: for path1 of batch shape S1 and path2 of batch shape S2 (any ranks, any
\* sizes), both with the module's channels and a common length of two samples
\* or more, forward returns a tensor of shape exactly S1 + S2.
C1_BroadcastShapeLaw ==
    (/\ pc = "called"
     /\ IsLogsignature
     /\ self.depth >= 1
     /\ Numel(times) >= 2
     /\ Size(path1, 1) = self.in_channels
     /\ Size(path2, 1) = self.in_channels)
    => /\ out.status = "returned"
       /\ out.value.shape = BatchDims(path1) \o BatchDims(path2)

\* C2: the result of forward is the Cartesian broadcast: its shape is S1 + S2
\* and the entry at (i, j) is the p-norm of M(logsig(aug(path1[i])) -
\* logsig(aug(path2[j]))), a function of those two batch elements alone.
C2_CartesianBroadcast ==
    (pc = "called" /\ IsLogsignature /\ out.status = "returned")
    => /\ out.value.shape = BatchDims(path1) \o BatchDims(path2)
       /\ \A i \in 1..Prod(BatchDims(path1)), j \in 1..Prod(BatchDims(path2)) :
             ResultEntry(i, j) = PairDistance(i, j)

\* a returned result over a rank-1 and a rank-2 batch whose entries vary along
\* path1's batch and along path2's batch, through a learnt linear map
C2_Witness ==
    /\ pc = "called"
    /\ IsLogsignature
    /\ out.status = "returned"
    /\ self.pseudometric
    /\ BatchDims(path1) = <<2>>
    /\ BatchDims(path2) = <<2, 2>>
    /\ ResultEntry(1, 1) # ResultEntry(2, 1)
    /\ ResultEntry(1, 1) # ResultEntry(1, 2)
    /\ ResultEntry(1, 2) # ResultEntry(2, 1)

\* C3: when path1 equals path2, every diagonal entry result[i + i] of the
\* logsignature discrepancy is exactly 0, for every p, pseudometric on or off.
C3_IdentityOnEqualInputs ==
    (pc = "called" /\ IsLogsignature /\ path1 = path2 /\ out.status = "returned")
    => \A i \in 1..Prod(BatchDims(path1)) : ResultEntry(i, i) = 0

\* equal paths through a learnt linear map, with a non-zero off-diagonal entry
C3_Witness ==
    /\ pc = "called"
    /\ IsLogsignature
    /\ path1 = path2
    /\ out.status = "returned"
    /\ self.pseudometric
    /\ BatchDims(path1) = <<2>>
    /\ ResultEntry(1, 1) = 0
    /\ ResultEntry(1, 2) # 0

\* C4: for each path of batch shape S the time channel has shape S + (L, 1),
\* the augmented path has shape S + (L, C + 1), its channel 0 at sample k is
\* times[k] for every batch element and its channels 1..C are the path.
C4_TimeAugmentation ==
    (pc = "called" /\ IsLogsignature)
    => \A path \in {path1, path2} :
          LET dims == BatchDims(path)
              len == Numel(times)
              c == Size(path, 1)
              aug == AppendTime(times, path)
          IN /\ TimeChannel(times, dims).shape = dims \o <<len, 1>>
             /\ aug.ok
             /\ aug.t.shape = dims \o <<len, c + 1>>
             /\ \A r \in 1..Prod(dims), k \in 1..len :
                   /\ Sample(aug.t, r, k)[1] = times.data[k]
                   /\ SubSeq(Sample(aug.t, r, k), 2, c + 1) = Sample(path, r, k)

\* C5: a LogsignatureDiscrepancy with pseudometric on owns a square linear map
\* with no bias whose dimension is logsig_dim(in_channels + 1, depth), the
\* number of features forward computes for paths of in_channels channels;
\* applying the map to such features does not fail and keeps their number.
C5_LinearMapDimension ==
    (IsLogsignature /\ self.pseudometric)
    => LET n == logsignature_channels(self.in_channels + 1, self.depth).n
       IN /\ ~self.linear.none
          /\ self.linear.bias = <<>>
          /\ Len(self.linear.weight) = n
          /\ \A o \in 1..n : Len(self.linear.weight[o]) = n
          /\ (/\ pc = "called"
              /\ Numel(times) >= 2
              /\ Size(path1, 1) = self.in_channels
              /\ Size(path2, 1) = self.in_channels)
             => /\ out.err # LinearError
                /\ \A path \in {path1, path2} :
                      \A r \in 1..Prod(BatchDims(path)) :
                         LET f == ElementFeatures(times, path, r, self.depth)
                             y == ApplyLinear(self.linear, Tensor(<<Len(f)>>, f))
                         IN /\ Len(f) = n
                            /\ y.ok
                            /\ y.t.shape = <<n>>

\* a returned call on a module of the most channels at depth 2
C5_Witness ==
    /\ pc = "called"
    /\ IsLogsignature
    /\ self.pseudometric
    /\ self.depth = 2
    /\ self.in_channels = MaxChannels
    /\ Size(path1, 1) = self.in_channels
    /\ out.status = "returned"
    /\ Len(self.linear.weight) > self.in_channels + 1

\* C6: with pseudometric off a LogsignatureDiscrepancy has no linear map and
\* forward returns the p-norm of the raw logsignature difference; an
\* L2Discrepancy with pseudometric off hands the kernel a parameter of zero
\* elements, with pseudometric on a matrix of shape (in_channels, in_channels).
C6_PseudometricOff ==
    /\ (IsLogsignature /\ ~self.pseudometric)
       => /\ self.linear.none
          /\ (pc = "called" /\ out.status = "returned")
             => \A i \in 1..Prod(BatchDims(path1)), j \in 1..Prod(BatchDims(path2)) :
                   LET f1 == ElementFeatures(times, path1, i, self.depth)
                       f2 == ElementFeatures(times, path2, j, self.depth)
                   IN ResultEntry(i, j)
                         = VecNorm([n \in 1..Len(f1) |-> f1[n] - f2[n]], self.p)
    /\ (IsL2 /\ ~self.pseudometric)
       => /\ Numel(self.arg) = 0
          /\ (pc = "called" => Numel(fn_arg) = 0)
    /\ (IsL2 /\ self.pseudometric)
       => /\ self.arg.shape = <<self.in_channels, self.in_channels>>
          /\ (pc = "called" => fn_arg = self.arg)

\* an L2Discrepancy with pseudometric off whose call returned distances, not
\* all of them zero
C6_Witness ==
    /\ pc = "called"
    /\ IsL2
    /\ ~self.pseudometric
    /\ out.status = "returned"
    /\ Numel(fn_arg) = 0
    /\ \E k \in 1..Len(out.value.data) : out.value.data[k] # 0

\* C7: whenever the channel counts of path1, path2 and the module's
\* in_channels are not all equal, the evaluation fails with a shape-mismatch
\* error and returns no distance.
C7_ChannelMismatchRejected ==
    (/\ pc = "called"
     /\ IsLogsignature
     /\ self.depth >= 1
     /\ Numel(times) >= 2
     /\ ~(Size(path1, 1) = self.in_channels /\ Size(path2, 1) = self.in_channels))
    => /\ out.status = "raised"
       /\ out.err \in ShapeErrors

\* C8: a logsignature discrepancy configured with depth < 1 fails with an
\* InvalidDepthError of the discrepancy itself, at construction or at
\* evaluation, and returns no distance.
C8_InvalidDepthRejected ==
    /\ pc = "init_raised" => out.err = "InvalidDepthError"
    /\ (pc = "called" /\ IsLogsignature /\ self.depth < 1)
       => /\ out.status = "raised"
          /\ out.err = "InvalidDepthError"

\* C9: the L2 discrepancy called with times and paths of length L < 2 fails
\* with a DegeneratePathError and returns no distance.
C9_DegeneratePathRejected ==
    (pc = "called" /\ IsL2 /\ Size(path1, 2) < 2)
    => /\ out.status = "raised"
       /\ out.err = "DegeneratePathError"

\* an L2 call on paths of a single sample that raised
C9_Witness ==
    /\ pc = "called"
    /\ IsL2
    /\ Size(path1, 2) = 1
    /\ Numel(times) = 1
    /\ out.status = "raised"

LabelsBefore(n) == {loaded.y[j] : j \in 1..n}

\* C11: the labels get_data delivers are integers 0..k-1 for k distinct
\* loaded labels, assigned in order of first appearance, equal exactly for
\* equal loaded labels, every code used, num_classes = k; the returned times
\* are 0, 1, ..., L-1.
C11_LabelsContiguous ==
    pc = "returned"
    => LET k == Cardinality(LabelsBefore(Len(loaded.y)))
           len == loaded.X.shape[2]
       IN /\ Len(all_y) = Len(loaded.y)
          /\ \A i \in 1..Len(all_y) : all_y[i] \in 0..(k - 1)
          /\ \A i, j \in 1..Len(all_y) :
                (all_y[i] = all_y[j]) <=> (loaded.y[i] = loaded.y[j])
          /\ \A code \in 0..(k - 1) : \E i \in 1..Len(all_y) : all_y[i] = code
          /\ \A i \in 1..Len(all_y) :
                loaded.y[i] \notin LabelsBefore(i - 1)
                => all_y[i] = Cardinality(LabelsBefore(i - 1))
          /\ out.value.num_classes = k
          /\ out.value.times.shape = <<len>>
          /\ \A n \in 1..len : out.value.times.data[n] = n - 1
          /\ \A n \in 1..(len - 1) :
                out.value.times.data[n] < out.value.times.data[n + 1]

\* labels that are not in sorted order and repeat, returned after a
\* missing-value pass over a series of the greatest length
C11_Witness ==
    /\ pc = "returned"
    /\ loaded.y = <<"b", "a", "b">>
    /\ all_y = <<0, 1, 0>>
    /\ out.value.num_classes = 2
    /\ missing.rate > 0
    /\ Len(out.value.times.data) = MaxSeriesLen

\* C12: constructing a SigletDataset from (N, L, C) data, labels, a window
\* size and a depth succeeds and leaves as its data the logsignatures of the
\* rolling windows, of shape (N, windows, SIG_DIM); depth, aug_list and
\* window_size are assigned before the data-initialisation step reads them.
C12_SigletConstruction ==
    (pc \in {"constructed", "raised"} /\ dataset.cls = "SigletDataset"
     /\ dataset.args[3] >= 2 /\ dataset.args[4] >= 1)
    => /\ pc = "constructed"
       /\ out.status = "returned"
       /\ {"window_size", "depth", "aug_list", "data"} \subseteq DOMAIN dataset.attrs
       /\ LET data == dataset.args[1]
              channels == data.shape[3]
                          + (IF dataset.args[5] = <<>> THEN 0 ELSE 1)
          IN dataset.attrs["data"].shape
                = <<data.shape[1], data.shape[2] - dataset.args[3] + 1,
                    logsignature_channels(channels, dataset.args[4]).n>>

\* the removed points of the m-th pass of the missing-value loops, as a set
RemovedSet(m) == {missing.removed[m][n] : n \in 1..Len(missing.removed[m])}

\* the greatest point below r, and the least point above r, that was kept
KeptBelow(R, r) == CHOOSE a \in (0..(r - 1)) \ R : \A q \in (0..(r - 1)) \ R : q <= a
KeptAbove(R, r, len) ==
    CHOOSE b \in ((r + 1)..(len - 1)) \ R : \A q \in ((r + 1)..(len - 1)) \ R : b <= q

\* the missing-value loop stopped by an error
MissingStepRaised ==
    /\ pc = "raised"
    /\ missing.rate > 0
    /\ missing.batch_index < all_X.shape[1]

\* C13: for every series and channel the missing-value step has passed, the
\* removed points R lie in 1..L-2, every sample not in R is as loaded, and the
\* sample at every r in R is x[a] + (t[r]-t[a])/(t[b]-t[a]) * (x[b]-x[a]) for
\* the nearest kept points a below and b above r, runs of removed points
\* included.
C13_MissingInterpolation ==
    (pc \in {"loaded", "returned", "raised"} /\ loaded.X.shape # <<0>>)
    => LET len == loaded.X.shape[2]
           c == loaded.X.shape[3]
           t(k) == times.data[k + 1]
       IN \A m \in 1..(loaded.X.shape[1] * c) :
             LET batch_index == (m - 1) \div c
                 channel_index == (m - 1) % c
                 x(k) == At(loaded.X, batch_index, k, channel_index)
                 now(k) == At(all_X, batch_index, k, channel_index)
                 R == IF m <= Len(missing.removed) THEN RemovedSet(m) ELSE {}
             IN /\ R \subseteq 1..(len - 2)
                /\ \A k \in (0..(len - 1)) \ R : now(k) = x(k)
                /\ \A r \in R :
                      LET a == KeptBelow(R, r)
                          b == KeptAbove(R, r, len)
                      IN (now(r) - x(a)) * (t(b) - t(a))
                            = (t(r) - t(a)) * (x(b) - x(a))

\* a returned call whose first pass removed the run of points 1 and 2 and
\* whose second pass removed 1 and 3, with values that changed
C13_Witness ==
    /\ pc = "returned"
    /\ Len(missing.removed) >= 2
    /\ missing.removed[1] = <<1, 2>>
    /\ missing.removed[2] = <<1, 3>>
    /\ At(all_X, 0, 1, 0) # At(loaded.X, 0, 1, 0)
    /\ At(all_X, 0, 2, 0) # At(loaded.X, 0, 2, 0)

\* C14: for every missing_rate > 0 and every series length the missing-value
\* step completes without raising, also when int(L * missing_rate) is 0 or
\* exceeds the L - 2 interior points; in the zero case the data is unchanged.
C14_MissingStepCompletes ==
    /\ ~MissingStepRaised
    /\ (pc \in {"loaded", "returned"} /\ missing.rate > 0
        /\ NumRemoved(loaded.X.shape[2], missing.rate) = 0)
       => all_X = loaded.X

\* C15: in every pass of hyperparameter_search_old, hyperparameter_search_l2,
\* comparison_test and missing_and_length_test, main runs only if
\* assert_not_done answered true, and assert_not_done is asked about exactly
\* the result_folder and the subfolder dataset_name + dataset_detail + '-' +
\* result_subfolder that main gives to common.main for that configuration.
C15_ResumeConsistency ==
    (pc = "driving" /\ driver.position > 0)
    => LET written == <<driver.config.result_folder,
                        driver.config.dataset_name \o driver.config.dataset_detail
                        \o "-" \o driver.config.result_subfolder>>
       IN /\ <<driver.asked[1], driver.asked[2]>> = written
          /\ driver.ran # <<>> => driver.answer
          /\ driver.ran # <<>> => driver.ran = written

\* a pass of missing_and_length_test that ran main, with a dataset detail
C15_Witness ==
    /\ pc = "driving"
    /\ driver.fn = "missing_and_length_test"
    /\ driver.answer
    /\ driver.config.dataset_detail = "30"
    /\ driver.asked = <<"uea_missing_and_length", "Libras30-L2-False", 3>>
    /\ driver.ran = <<"uea_missing_and_length", "Libras30-L2-False">>

====
